---- MODULE Spec2Model ----
(***************************************************************************)
(* Model of bpvo's photometric error kernel, PhotoError::Impl of           *)
(* bpvo/photo_error.cc (the variant compiled with                          *)
(* PHOTO_ERROR_WITH_OPENCV == 0).                                          *)
(*                                                                         *)
(* Number representation.  A float f is represented by the integer 4*f     *)
(* ("quarter units"): F(n) is the float n, FMul is the float product.      *)
(* Every projected coordinate of the model has a homogeneous scale of      *)
(* magnitude 1 or 2, so bilinear weights are multiples of 0.25, image      *)
(* intensities are whole numbers and reference intensities are multiples   *)
(* of 0.25: every product and sum the kernel forms is then exactly         *)
(* representable in single precision, and float arithmetic on these values *)
(* is exact.  Rounding is therefore not part of the model.                 *)
(*                                                                         *)
(* Arrays are functions over 0..n-1, indexed as in the C++ source.         *)
(***************************************************************************)
EXTENDS Integers, Sequences, FiniteSets, TLC

\* Largest number of points handed to one init.
MaxN == 9
\* Largest number of image rows and of image columns.
MaxDim == 4

VARIABLES
  build,            \* compile-time configuration: [simd: WITH_SIMD, sse41: __SSE4_1__]
  _stride,          \* Impl::_stride
  _interp_coeffs,   \* Impl::_interp_coeffs, an array of Vector4
  _inds,            \* Impl::_inds
  _valid_ptr,       \* Impl::_valid_ptr: 0 is nullptr, else an address
  valid,            \* the caller's ValidVector (its elements)
  validData,        \* valid.data(): the address of the caller's vector storage
  lastInit,         \* the arguments of the most recent init (history variable)
  initValid,        \* the mask as the most recent init left it (history variable)
  pc,               \* "idle" | "batch" | "tail" | "done" | "crashed"
  i,                \* run's loop index
  num_points,       \* run's local num_points
  aligned,          \* which branch of line 103 run took
  I0_ptr,           \* run's argument: [at: address mod 16, mem: the reference array]
  I1,               \* run's argument: the target image, row-major
  r_ptr,            \* run's argument: [at: address mod 16, mem: the residual buffer]
  writes,           \* stores into r_ptr by the current run, in order: <<index, loop>>
  i0reads,          \* indices of I0_ptr read by the current run
  i1reads,          \* flat indices of I1 read by the current run
  maskreads,        \* <<address, index>> pairs read through _valid_ptr by the current run
  prev_r,           \* residuals of the preceding run when it had the same inputs
  prevInitN         \* the point count of the init before the most recent one, or -1
                    \* (history variable, kept only by specification SpecSeq)

impl == <<_stride, _interp_coeffs, _inds, _valid_ptr>>
caller == <<valid, validData>>
hist == <<lastInit, initValid>>
runargs == <<I0_ptr, I1, r_ptr>>
runlocals == <<pc, i, num_points, aligned>>
runlog == <<writes, i0reads, i1reads, maskreads, prev_r>>
vars == <<build, impl, caller, hist, runargs, runlocals, runlog, prevInitN>>

----------------------------------------------------------------------------
\* Arrays and floats

Len0(a) == Cardinality(DOMAIN a)
Empty == [k \in {} |-> 0]

F(n) == 4 * n
FMul(a, b) == (a * b) \div 4

----------------------------------------------------------------------------
\* Projection (bpvo/project_points.h, not part of the sources at hand)

\* p = P * X[i] for a 3x4 matrix P and a homogeneous point X[i].
MatVec(P, x) ==
  LET row(k) == P[k][1]*x[1] + P[k][2]*x[2] + P[k][3]*x[3] + P[k][4]*x[4]
  IN  <<row(1), row(2), row(3)>>

\* floor(a / b) for b # 0.
FloorDiv(a, b) == IF b > 0 THEN a \div b ELSE (0 - a) \div (0 - b)

\* The fractional part of a / b as a numerator over |b|.
FracNum(a, b) == IF b > 0 THEN a % b ELSE (0 - a) % (0 - b)

Abs(a) == IF a < 0 THEN 0 - a ELSE a

\* One point of projectPoints: validity, base offset and the four weights.
ProjectPoint(P, x, size) ==
  LET p  == MatVec(P, x)
      s  == Abs(p[3])
      xi == FloorDiv(p[1], p[3])
      yi == FloorDiv(p[2], p[3])
      fx == FracNum(p[1], p[3])
      fy == FracNum(p[2], p[3])
      ok == /\ p[3] # 0
            /\ 0 <= xi /\ xi < size.cols - 1
            /\ 0 <= yi /\ yi < size.rows - 1
  IN  IF ok
      THEN [valid |-> TRUE,
            ind   |-> yi * size.cols + xi,
            coeff |-> << (F(1) * (s - fx) * (s - fy)) \div (s * s),
                         (F(1) * fx * (s - fy)) \div (s * s),
                         (F(1) * (s - fx) * fy) \div (s * s),
                         (F(1) * fx * fy) \div (s * s) >>]
      ELSE [valid |-> FALSE, ind |-> 0, coeff |-> <<0, 0, 0, 0>>]

\* projectPoints(P, X, N, size, valid, inds, coeffs): fills the three arrays.
projectPoints(P, X, size) ==
  [k \in DOMAIN X |-> ProjectPoint(P, X[k], size)]

----------------------------------------------------------------------------
\* Inputs

Pid == << <<1, 0, 0, 0>>, <<0, 1, 0, 0>>, <<0, 0, 1, 0>> >>
Pshift == << <<1, 0, 1, 0>>, <<0, 1, 0, 2>>, <<0, 0, 1, 0>> >>

\* Homogeneous scene points <<x, y, z, 1>>.
Catalogue ==
  << <<3, 3, 2, 1>>,     \* (1.5, 1.5) under Pid
     <<2, 2, 1, 1>>,     \* (2, 2)
     <<7, 0, 2, 1>>,     \* (3.5, 0)
     <<-1, 2, 2, 1>>,    \* (-0.5, 1)
     <<1, 1, 0, 1>>,     \* zero homogeneous scale
     <<1, 1, 1, 1>>,     \* (1, 1)
     <<3, 1, 1, 1>>,     \* (3, 1)
     <<-2, -2, -1, 1>>,  \* (2, 2) with a negative scale
     <<0, 0, 1, 1>>,     \* (0, 0)
     <<1, 3, 1, 1>> >>   \* (1, 3)

\* The point list of n points starting at catalogue entry seed.
Points(n, seed) ==
  [k \in 0..(n - 1) |-> Catalogue[((seed + k) % Len(Catalogue)) + 1]]

\* Target images of rows*cols whole-number intensities.
Ramp(n) == [k \in 0..(n - 1) |-> F(k)]
Squares(n) == [k \in 0..(n - 1) |-> F((k * k) % 7)]

\* Reference intensities for n points.
Sevens(n) == [k \in 0..(n - 1) |-> F(7)]
Halves(n) == [k \in 0..(n - 1) |-> F(k) + 2]

\* Addresses of float buffers modulo 16.
Addrs == {0, 4}

\* The caller's residual buffer before run: room past the last point, unwritten.
Unwritten(n) == [k \in 0..(n + 7) |-> 0 - F(1000)]

----------------------------------------------------------------------------
\* The kernel's helpers

\* ptr[k]; a read outside the buffer is undefined behaviour whose value, when
\* the program survives it, is not determined: run records the read and may
\* fault, and load_data_simd's shuffle discards every lane that can be outside.
At(ptr, k) == IF k \in DOMAIN ptr THEN ptr[k] ELSE 0 - F(999)

\* simd::isAligned<16>(ptr)
isAligned(at) == at % 16 = 0

\* std::vector<T>::resize(n): the first n elements kept, new ones filled.
VecResize(v, n, fill) ==
  [k \in 0..(n - 1) |-> IF k \in DOMAIN v THEN v[k] ELSE fill]

\* resize that only ever grows the arrays.
resize_GrowOnly(N) ==
  [coeffs |-> VecResize(_interp_coeffs, IF N > Len0(_interp_coeffs)
                                        THEN N ELSE Len0(_interp_coeffs), <<0, 0, 0, 0>>),
   inds   |-> VecResize(_inds, IF N > Len0(_inds) THEN N ELSE Len0(_inds), 0)]

\* Impl::resize(N)
resize(N) ==
  [coeffs |-> VecResize(_interp_coeffs, N, <<0, 0, 0, 0>>),
   inds   |-> VecResize(_inds, N, 0)]

\* The image size with its two arguments exchanged.
ImageSize_Swapped(rows, cols) == [rows |-> cols, cols |-> rows]

\* ImageSize(rows, cols), as init builds it for projectPoints.
ImageSize(rows, cols) == [rows |-> rows, cols |-> cols]

\* _stride = rows
InitStride_Rows(rows, cols) == rows

\* _stride = cols
InitStride(rows, cols) == cols

\* _mm_loadu_ps(p): four consecutive floats.
mm_loadu_ps(ptr, p) == <<At(ptr, p), At(ptr, p + 1), At(ptr, p + 2), At(ptr, p + 3)>>

\* _mm_shuffle_ps(a, b, _MM_SHUFFLE(z, y, x, w)) = (a[w], a[x], b[y], b[z])
mm_shuffle_ps(a, b, z, y, x, w) == <<a[w + 1], a[x + 1], b[y + 1], b[z + 1]>>

\* _mm_dp_ps(a, b, 0xff), lane 0
mm_dp_ps(a, b) ==
  (FMul(a[1], b[1]) + FMul(a[2], b[2])) + (FMul(a[3], b[3]) + FMul(a[4], b[4]))

\* _mm_mul_ps, then _mm_hadd_ps twice, lane 0
mm_mul_hadd_hadd(a, b) ==
  LET t0 == [k \in 1..4 |-> FMul(a[k], b[k])]
      t1 == <<t0[1] + t0[2], t0[3] + t0[4], t0[1] + t0[2], t0[3] + t0[4]>>
  IN  t1[1] + t1[2]

\* Eigen's a.dot(b)
EigenDot(a, b) ==
  ((FMul(a[1], b[1]) + FMul(a[2], b[2])) + FMul(a[3], b[3])) + FMul(a[4], b[4])

\* load_data with the right and the lower neighbour exchanged.
load_data_Transposed(ptr, k) ==
  LET p == _inds[k]
  IN  <<At(ptr, p), At(ptr, p + _stride), At(ptr, p + 1), At(ptr, p + _stride + 1)>>

\* Impl::load_data(ptr, i)
load_data(ptr, k) ==
  LET p == _inds[k]
  IN  <<At(ptr, p), At(ptr, p + 1), At(ptr, p + _stride), At(ptr, p + _stride + 1)>>

\* load_data_simd with _MM_SHUFFLE(2, 1, 1, 0).
load_data_simd_BadShuffle(ptr, p) ==
  mm_shuffle_ps(mm_loadu_ps(ptr, p), mm_loadu_ps(ptr, p + _stride), 2, 1, 1, 0)

\* Impl::load_data_simd(p)
load_data_simd(ptr, p) ==
  mm_shuffle_ps(mm_loadu_ps(ptr, p), mm_loadu_ps(ptr, p + _stride), 1, 0, 1, 0)

\* Impl::dot_(__m128, __m128)
dot_m128(a, b) == IF build.sse41 THEN mm_dp_ps(a, b) ELSE mm_mul_hadd_hadd(a, b)

\* Impl::dot_(const Vector4&, const Vector4&)
dot_(a, b) == IF build.sse41 THEN mm_dp_ps(a, b) ELSE EigenDot(a, b)

\* The test inverted.
Gate_Inverted(v) == ~v

\* The test "_valid_ptr[i] ?" of operator(), on the value v read there.
Gate(v) == v

\* Impl::operator()(ptr, i), where v is the value read at _valid_ptr[i].
operatorCall(ptr, k, v) ==
  IF build.simd
  THEN IF Gate(v) THEN dot_m128(_interp_coeffs[k], load_data_simd(ptr, _inds[k])) ELSE 0
  ELSE IF Gate(v) THEN dot_(_interp_coeffs[k], load_data(ptr, k)) ELSE 0

\* The flat indices of ptr that operator()(ptr, i) reads on the value v.
GatherReads(k, v) ==
  LET p == _inds[k]
  IN  IF ~Gate(v) THEN {}
      ELSE IF build.simd
           THEN (p..(p + 3)) \cup ((p + _stride)..(p + _stride + 3))
           ELSE {p, p + 1, p + _stride, p + _stride + 1}

\* A read of a private copy of the mask, taken at init.
ValidRead_PrivateCopy(k) ==
  IF k \in DOMAIN initValid THEN {initValid[k]} ELSE BOOLEAN

\* The values a read of _valid_ptr[k] can give: the element when the pointer
\* still addresses the caller's vector and k is inside it, anything otherwise.
ValidRead(k) ==
  IF _valid_ptr = validData /\ k \in DOMAIN valid THEN {valid[k]} ELSE BOOLEAN

\* What eight reads _valid_ptr[k], ..., _valid_ptr[k + 7] can give.
MaskReads(k) ==
  IF \A j \in 0..7 : ValidRead(k + j) # BOOLEAN
  THEN {[j \in 0..7 |-> CHOOSE b \in ValidRead(k + j) : TRUE]}
  ELSE {m \in [0..7 -> BOOLEAN] : \A j \in 0..7 : m[j] \in ValidRead(k + j)}

\* The batch loop's test with < for <=.
BatchCond_Strict(k, n) == k < n - 8

\* The loop conditions of run.
BatchCond(k, n) == k <= n - 8
TailCond(k, n) == k < n

\* Where run goes after its index has become k.
Goto(k, n, from) ==
  IF from = "batch" /\ BatchCond(k, n) THEN "batch"
  ELSE IF TailCond(k, n) THEN "tail"
  ELSE "done"

\* The outcomes of a step: a fault for certain, possibly, or not at all.
Faults(sure, maybe) == IF sure THEN {TRUE} ELSE IF maybe THEN BOOLEAN ELSE {FALSE}

----------------------------------------------------------------------------
\* State after construction (PhotoError::PhotoError: a fresh Impl)

NoRun ==
  /\ pc = "idle" /\ i = 0 /\ num_points = 0 /\ aligned = FALSE
  /\ I0_ptr = [at |-> 0, mem |-> Empty]
  /\ I1 = Empty
  /\ r_ptr = [at |-> 0, mem |-> Empty]
  /\ writes = <<>> /\ i0reads = {} /\ i1reads = {} /\ maskreads = {}
  /\ prev_r = [some |-> FALSE, r |-> Empty]

Builds == [simd : BOOLEAN, sse41 : BOOLEAN]

\* _stride has no initializer: it is indeterminate until the first init, and
\* no run reads it before (num_points is 0 until then).
Init ==
  /\ build \in Builds
  /\ _stride = 0
  /\ _interp_coeffs = Empty
  /\ _inds = Empty
  /\ _valid_ptr = 0
  /\ valid = Empty
  /\ validData = 1
  /\ lastInit = [P |-> Pid, X |-> Empty, rows |-> 0, cols |-> 0, vdata |-> 0]
  /\ initValid = Empty
  /\ prevInitN = 0 - 1
  /\ NoRun

\* The caller drops the buffers of the run before (they are the caller's).
DropRun ==
  /\ pc' = "idle" /\ i' = 0 /\ num_points' = 0 /\ aligned' = FALSE
  /\ I0_ptr' = [at |-> 0, mem |-> Empty]
  /\ I1' = Empty
  /\ r_ptr' = [at |-> 0, mem |-> Empty]
  /\ writes' = <<>> /\ i0reads' = {} /\ i1reads' = {} /\ maskreads' = {}
  /\ prev_r' = [some |-> FALSE, r |-> Empty]

Callable == pc \in {"idle", "done"}

----------------------------------------------------------------------------
\* PhotoError::Impl::init(P, X, valid, rows, cols)

init(P, X, rows, cols) ==
  \* valid.resize may move the vector's storage; _valid_ptr is taken after it,
  \* so validData stands for the address after the resize.
  LET N   == Len0(X)
      rs  == resize(N)
      v1  == VecResize(valid, N, FALSE)
      \* projectPoints is not called for an empty X, and writes elements 0..N-1.
      hit(k) == N # 0 /\ k < N
      out(k) == projectPoints(P, X, ImageSize(rows, cols))[k]
  IN  /\ pc = "idle"
      /\ _valid_ptr' = validData
      /\ _stride' = InitStride(rows, cols)
      /\ _interp_coeffs' =
           [k \in DOMAIN rs.coeffs |-> IF hit(k) THEN out(k).coeff ELSE rs.coeffs[k]]
      /\ _inds' = [k \in DOMAIN rs.inds |-> IF hit(k) THEN out(k).ind ELSE rs.inds[k]]
      /\ valid' = [k \in DOMAIN v1 |-> IF hit(k) THEN out(k).valid ELSE v1[k]]
      /\ initValid' = valid'
      /\ lastInit' = [P |-> P, X |-> X, rows |-> rows, cols |-> cols, vdata |-> validData]
      /\ DropRun
      /\ UNCHANGED <<build, validData>>

----------------------------------------------------------------------------
\* PhotoError::Impl::run(I0_ptr, I1, r_ptr)

\* Entry: lines 96-103, up to the first loop test.
run(I0, img, r) ==
  LET n == Len0(_interp_coeffs)
      \* the same inputs as the run before: I0, I1 and a mask that is still there
      same == /\ pc = "done" /\ I0.mem = I0_ptr.mem /\ img = I1
              /\ _valid_ptr = validData
  IN  /\ Callable
      /\ I0_ptr' = I0 /\ I1' = img /\ r_ptr' = r
      /\ num_points' = n
      /\ i' = 0
      /\ aligned' = (n # 0 /\ isAligned(r.at) /\ isAligned(I0.at))
      /\ pc' = IF n = 0 THEN "done" ELSE Goto(0, n, "batch")
      /\ writes' = <<>> /\ i0reads' = {} /\ i1reads' = {} /\ maskreads' = {}
      /\ prev_r' = IF same
                   THEN [some |-> TRUE,
                         r |-> [k \in 0..(num_points - 1) |-> r_ptr.mem[k]]]
                   ELSE [some |-> FALSE, r |-> Empty]
      /\ UNCHANGED <<build, impl, caller, hist, prevInitN>>

\* One iteration of the batch loop (lines 105-119 or 121-135): eight calls of
\* operator(), two loads of four I0 floats, two stores of four residuals.
\* _mm_store_ps and _mm_load_ps fault on an address that is not a multiple of 16.
RunBatchIter ==
  /\ pc = "batch"
  /\ \E m \in MaskReads(i) :
       /\ LET lanes == 0..7
              gathered == UNION {GatherReads(i + k, m[k]) : k \in lanes}
              misaligned == aligned /\ (~isAligned(r_ptr.at + 4 * i)
                                        \/ ~isAligned(I0_ptr.at + 4 * i))
              wild == \/ ~(gathered \subseteq DOMAIN I1)
                      \/ \E k \in lanes : ValidRead(i + k) = BOOLEAN
              res(k) == operatorCall(I1, k, m[k - i]) - At(I0_ptr.mem, k)
          IN  \E fault \in Faults(misaligned, wild) :
                IF fault
                THEN /\ pc' = "crashed"
                     /\ UNCHANGED <<i, r_ptr, writes, i0reads, i1reads, maskreads>>
                ELSE /\ r_ptr' = [r_ptr EXCEPT !.mem =
                                    [k \in DOMAIN r_ptr.mem |->
                                       IF k \in i..(i + 7) THEN res(k) ELSE r_ptr.mem[k]]]
                     /\ writes' = writes \o [k \in 1..8 |-> <<i + k - 1, "batch">>]
                     /\ i0reads' = i0reads \cup (i..(i + 7))
                     /\ i1reads' = i1reads \cup gathered
                     /\ maskreads' = maskreads \cup {<<_valid_ptr, i + k>> : k \in lanes}
                     /\ i' = i + 8
                     /\ pc' = Goto(i + 8, num_points, "batch")
  /\ UNCHANGED <<build, impl, caller, hist, num_points, aligned, I0_ptr, I1, prev_r,
                 prevInitN>>

\* One iteration of the tail loop (lines 139-140).
RunTailIter ==
  /\ pc = "tail"
  /\ \E v \in ValidRead(i) :
       LET gathered == GatherReads(i, v)
           wild == ~(gathered \subseteq DOMAIN I1) \/ ValidRead(i) = BOOLEAN
       IN  \E fault \in Faults(FALSE, wild) :
             IF fault
             THEN /\ pc' = "crashed"
                  /\ UNCHANGED <<i, r_ptr, writes, i0reads, i1reads, maskreads>>
             ELSE /\ r_ptr' = [r_ptr EXCEPT !.mem[i] =
                                 operatorCall(I1, i, v) - At(I0_ptr.mem, i)]
                  /\ writes' = Append(writes, <<i, "tail">>)
                  /\ i0reads' = i0reads \cup {i}
                  /\ i1reads' = i1reads \cup gathered
                  /\ maskreads' = maskreads \cup {<<_valid_ptr, i>>}
                  /\ i' = i + 1
                  /\ pc' = Goto(i + 1, num_points, "tail")
  /\ UNCHANGED <<build, impl, caller, hist, num_points, aligned, I0_ptr, I1, prev_r,
                 prevInitN>>

----------------------------------------------------------------------------
\* The caller, between calls

\* The number of points and the image size the caller last gave init: the
\* caller sizes I0, r and the image by them.
CallerN == Len0(lastInit.X)
CallerPixels == lastInit.rows * lastInit.cols

\* Release: the caller is done with the residuals and drops the run's buffers.
Release ==
  /\ pc = "done"
  /\ DropRun
  /\ UNCHANGED <<build, impl, caller, hist, prevInitN>>

\* A projection with the image size it is used with: <<P, rows, cols>>.
Scenes ==
  { <<Pid, MaxDim, MaxDim>>,
    <<Pid, MaxDim - 1, MaxDim>>,
    <<Pshift, MaxDim, MaxDim - 1>> }

\* Where in the catalogue a point list may start.
Seeds == {c \in 0..(Len(Catalogue) - 1) : c % 2 = 0}

InitStep ==
  \E sc \in Scenes, n \in 0..MaxN, seed \in Seeds :
    /\ init(sc[1], Points(n, seed), sc[2], sc[3])
    /\ UNCHANGED prevInitN

RunStep ==
  \E a0 \in Addrs, ar \in Addrs, t \in BOOLEAN :
    run([at |-> a0, mem |-> IF t THEN Sevens(CallerN) ELSE Halves(CallerN)],
        IF t THEN Ramp(CallerPixels) ELSE Squares(CallerPixels),
        [at |-> ar, mem |-> Unwritten(CallerN)])

Next == InitStep \/ RunStep \/ RunBatchIter \/ RunTailIter \/ Release

Spec == Init /\ [][Next]_vars

----------------------------------------------------------------------------
\* Sequences of init calls, remembering the point count of the call before.

SeqSeeds == {0, 4}

InitSeqStep ==
  \E sc \in Scenes, n \in 0..MaxN, seed \in SeqSeeds :
    /\ init(sc[1], Points(n, seed), sc[2], sc[3])
    /\ prevInitN' = IF lastInit.rows = 0 THEN 0 - 1 ELSE CallerN

RunOneStep ==
  run([at |-> 0, mem |-> Sevens(CallerN)], Ramp(CallerPixels),
      [at |-> 0, mem |-> Unwritten(CallerN)])

NextSeq == InitSeqStep \/ RunOneStep \/ RunBatchIter \/ RunTailIter \/ Release

SpecSeq == Init /\ [][NextSeq]_vars

----------------------------------------------------------------------------
\* A caller that touches its ValidVector between init and run.

\* valid[k] = !valid[k], once per init.
CallerSetValid(k) ==
  /\ Callable
  /\ _valid_ptr = validData
  /\ valid = initValid
  /\ k \in DOMAIN valid
  /\ valid' = [valid EXCEPT ![k] = ~valid[k]]
  /\ DropRun
  /\ UNCHANGED <<build, impl, validData, hist, prevInitN>>

\* The caller's vector gets new storage (reassigned, or grown past its
\* capacity), once per init: the old storage is freed, the new elements are
\* all true.
CallerReplaceValid ==
  /\ Callable
  /\ _valid_ptr = validData
  /\ validData' = 3 - validData
  /\ valid' \in {Empty, [k \in DOMAIN valid |-> TRUE]}
  /\ DropRun
  /\ UNCHANGED <<build, impl, hist, prevInitN>>

InitAliasStep ==
  \E n \in 0..MaxN, seed \in SeqSeeds :
    /\ init(Pid, Points(n, seed), MaxDim, MaxDim)
    /\ UNCHANGED prevInitN

CallerSetValidStep == \E k \in 0..(MaxN - 1) : CallerSetValid(k)

NextAlias ==
  \/ InitAliasStep \/ RunOneStep \/ RunBatchIter \/ RunTailIter \/ Release
  \/ CallerSetValidStep \/ CallerReplaceValid

SpecAlias == Init /\ [][NextAlias]_vars

----------------------------------------------------------------------------
\* Vocabulary of the properties

Inited == lastInit.rows # 0
Pts == 0..(CallerN - 1)
Residual(k) == r_ptr.mem[k]
Reference(k) == I0_ptr.mem[k]

\* The homogeneous image coordinate p = P * X[k] of the most recent init.
Hom(k) == MatVec(lastInit.P, lastInit.X[k])

\* c <= a / b < c + 1, for b # 0, without dividing.
InCell(a, b, c) ==
  IF b > 0 THEN c * b <= a /\ a < (c + 1) * b
  ELSE c * (0 - b) <= 0 - a /\ 0 - a < (c + 1) * (0 - b)

\* floor(x_k) = c and floor(y_k) = d for the projected pixel (x_k, y_k).
FloorIs(k, c, d) == InCell(Hom(k)[1], Hom(k)[3], c) /\ InCell(Hom(k)[2], Hom(k)[3], d)

\* The interpolated sample of point k from the stored offset and weights.
Bilinear(k) ==
  LET off == _inds[k]
      w == _interp_coeffs[k]
      stride == lastInit.cols
  IN  FMul(w[1], I1[off]) + FMul(w[2], I1[off + 1])
        + FMul(w[3], I1[off + stride]) + FMul(w[4], I1[off + stride + 1])

\* What projectPoints gives point k of the most recent init.
Projected(k) ==
  ProjectPoint(lastInit.P, lastInit.X[k], [rows |-> lastInit.rows, cols |-> lastInit.cols])

----------------------------------------------------------------------------
\* C1: after init and run, every point whose validity flag is false has the
\* residual 0 exactly, whatever I0 and I1 hold.
C1_InvalidResidualIsZero ==
  pc = "done" => \A k \in Pts : ~valid[k] => Residual(k) = 0

\* What the code writes for such a point: minus the reference intensity.
C1_InvalidResidualIsMinusReference ==
  pc = "done" => \A k \in Pts : ~valid[k] => Residual(k) = 0 - Reference(k)

C1_Witness ==
  pc = "done" /\ \E k \in Pts : ~valid[k] /\ Reference(k) # 0

\* C2: every read of the target image by run is at a flat index inside
\* [0, rows*stride), in the scalar and in the wide gather, and points that are
\* all invalid cause no read of it.
C2_TargetReadsInBounds ==
  /\ i1reads \subseteq 0..(lastInit.rows * lastInit.cols - 1)
  /\ (\A k \in Pts : ~valid[k]) => i1reads = {}

\* The part that holds: the scalar gather stays inside the image.
C2_ScalarReadsInBounds ==
  ~build.simd => i1reads \subseteq 0..(lastInit.rows * lastInit.cols - 1)

\* A wide-gather build, a valid point at (cols-2, rows-2), a read past the image.
C2_Witness ==
  /\ build.simd /\ pc = "done"
  /\ \E k \in Pts : valid[k] /\ FloorIs(k, lastInit.cols - 2, lastInit.rows - 2)
  /\ \E x \in i1reads : x >= lastInit.rows * lastInit.cols

\* C3: for every valid point run writes the bilinear sample of I1, taken with
\* the offset and weights of the most recent init and its cols as stride,
\* minus I0[i].
C3_ValidResidualIsBilinear ==
  pc = "done" => \A k \in Pts : valid[k] => Residual(k) = Bilinear(k) - Reference(k)

\* The 4x4 image 0..15, a point at (1.5, 1.5), I0[0] = 7.0: residual 0.5.
C3_Witness ==
  /\ pc = "done" /\ CallerN >= 1
  /\ lastInit.rows = 4 /\ lastInit.cols = 4 /\ I1 = Ramp(16)
  /\ Hom(0) = <<3, 3, 2>> /\ valid[0]
  /\ _inds[0] = 5 /\ _interp_coeffs[0] = <<1, 1, 1, 1>>
  /\ Reference(0) = F(7)
  /\ Residual(0) = 2

C5_PathsAgree ==
  pc = "done" =>
    \A k \in Pts :
      Residual(k) =
        (IF valid[k]
         THEN LET p == _inds[k]
                  g == <<I1[p], I1[p + 1], I1[p + _stride], I1[p + _stride + 1]>>
              IN  EigenDot(_interp_coeffs[k], g)
         ELSE 0) - Reference(k)

\* Nine points in a wide-gather build on unaligned buffers: eight by the batch
\* loop, one by the tail loop, valid points in both.
C5_Witness ==
  /\ pc = "done" /\ build.simd /\ ~build.sse41 /\ ~aligned /\ CallerN = 9
  /\ \E m \in 1..Len(writes) : writes[m][2] = "batch" /\ valid[writes[m][1]]
  /\ \E m \in 1..Len(writes) : writes[m][2] = "tail" /\ valid[writes[m][1]]

\* C6: init with no points leaves valid, the offsets and the weights empty, and
\* the run after it returns without reading I0, I1 or the mask and without
\* writing r, also after an init with points.
C6_EmptyInitIsNoOp ==
  (Inited /\ CallerN = 0) =>
    /\ Len0(valid) = 0 /\ Len0(_inds) = 0 /\ Len0(_interp_coeffs) = 0
    /\ pc \in {"idle", "done"}
    /\ writes = <<>> /\ i0reads = {} /\ i1reads = {} /\ maskreads = {}
    /\ pc = "done" => r_ptr.mem = Unwritten(0)

C6_Witness ==
  Inited /\ CallerN = 0 /\ prevInitN > 0 /\ pc = "done"

\* C7: after any sequence of inits the three arrays have the length of the last
\* call's point list, the stride is its cols, their contents are those of the
\* last call, and run computes exactly that many residuals from them.
C7_LastInitOnly ==
  Inited =>
    /\ Len0(valid) = CallerN /\ Len0(_inds) = CallerN /\ Len0(_interp_coeffs) = CallerN
    /\ _stride = lastInit.cols
    /\ \A k \in Pts :
         /\ valid[k] = Projected(k).valid
         /\ valid[k] => _inds[k] = Projected(k).ind /\ _interp_coeffs[k] = Projected(k).coeff
    /\ pc \in {"batch", "tail", "done"} => num_points = CallerN
    /\ pc = "done" =>
         /\ Len(writes) = CallerN
         /\ i0reads \subseteq Pts
         /\ \A rd \in maskreads : rd[2] \in Pts

\* The last init had fewer points than the one before, and another size.
C7_Witness ==
  /\ Inited /\ pc = "done" /\ prevInitN > CallerN /\ CallerN > 0
  /\ lastInit.cols # lastInit.rows

WriteDiscipline ==
  /\ Len(writes) <= num_points
  /\ \A m \in 1..Len(writes) :
       writes[m] = <<m - 1, IF m - 1 < 8 * (num_points \div 8) THEN "batch" ELSE "tail">>
  /\ pc = "done" => Len(writes) = num_points /\ num_points = Len0(_interp_coeffs)
  /\ i0reads \subseteq 0..(num_points - 1)
  /\ \A k \in DOMAIN r_ptr.mem : k >= Len(writes) => r_ptr.mem[k] = 0 - F(1000)
  /\ (pc = "done" /\ prev_r.some) => \A k \in 0..(num_points - 1) : Residual(k) = prev_r.r[k]

RunFrame ==
  /\ pc' # "idle" => UNCHANGED <<impl, caller>>
  /\ pc \in {"batch", "tail"} =>
       /\ UNCHANGED <<I0_ptr, I1, num_points>>
       /\ pc' # "crashed" => i' > i /\ i' <= num_points

C9_WriteSetAndFrame == [][RunFrame /\ WriteDiscipline']_vars

C9_Witness ==
  pc = "done" /\ num_points = 9 /\ prev_r.some /\ \E k \in Pts : valid[k]

\* C10: the instance keeps the caller's pointer, not a copy of the mask: the
\* stored pointer stays the address the last init was given, run reads the
\* mask there, and a flag the caller changed after init decides the residual
\* by its value at the time of run.
C10_MaskIsAliased ==
  /\ Inited => _valid_ptr = lastInit.vdata
  /\ \A rd \in maskreads : rd[1] = lastInit.vdata
  /\ (pc = "done" /\ _valid_ptr = validData) =>
       \A k \in Pts :
         (k \in DOMAIN valid /\ valid[k] # initValid[k]) =>
           Residual(k) = (IF valid[k] THEN Bilinear(k) ELSE 0) - Reference(k)

\* The caller cleared the flag of a point init had found valid.
C10_Witness ==
  /\ pc = "done" /\ _valid_ptr = validData
  /\ \E k \in Pts : initValid[k] /\ ~valid[k] /\ Bilinear(k) # 0
                    /\ Residual(k) = 0 - Reference(k)

\* The caller's vector has moved and run read the mask at the old address.
C10_DanglingRead ==
  pc = "done" /\ _valid_ptr # validData /\ maskreads # {}

====
